---- MODULE Spec2Model ----
(***************************************************************************)
(* PirateUserSearcherCLI: search() and the functions it drives             *)
(* (check_urls/get_tasks, sorter, printer, save), and proxy_checker(),     *)
(* which runs before search(), as a state machine.                         *)
(*                                                                         *)
(* A record is one listing dictionary of the apibay response.  The fields  *)
(* the pipeline reads are id, username, added, seeders, size and, once     *)
(* check_urls() has run, code.  The API delivers added/seeders/size as     *)
(* decimal strings, modelled as sequences of digits; int() parses them.    *)
(* A record without a 'code' key carries code = NoCode.                    *)
(***************************************************************************)
EXTENDS Integers, Sequences, FiniteSets, TLC

\* ---------------------------------------------------------------- bounds
\* longest response of one q.php query
MaxResp == 3
\* longest identity list of the query-phase specification
MaxUsers == 2
\* longest list of the sorter specification
MaxSort == 3
\* cap of the count of dispatched probe batches; the retry loop never reaches it
MaxBatches == 5
\* longest list of the display specification (beyond MAX_RESULTS_WITH_LINKS)
MaxDisplay == 102

\* ------------------------------------------------------ program constants
MaxRetries == 3
NotFound == 404
MAX_RESULTS_WITH_LINKS == 100

\* the value standing for an absent 'code' key (no HTTP status is 0)
NoCode == 0
\* statuses a detail-page probe can answer with
Codes == {200, NotFound, 500}

\* ------------------------------------------------------------ input data
Rec(i, u, a, s, z) ==
    [id |-> i, username |-> u, added |-> a, seeders |-> s, size |-> z, code |-> NoCode]

\* the listings of the remote index that match a search term
Catalogue(term) ==
    IF term = "linux"
    THEN { Rec(1, "Alice", <<2>>, <<5>>, <<1>>),
           Rec(2, "Alice", <<1>>, <<5>>, <<3>>),
           Rec(3, "Bob",   <<3>>, <<0>>, <<2>>) }
    ELSE { Rec(2, "Alice", <<1>>, <<5>>, <<3>>),
           Rec(4, "Alice", <<2>>, <<7>>, <<2>>) }

\* the argument lists search() is called with
TermLists == { <<"linux">>, <<"linux", "bsd">> }
UserLists == { <<"Alice">> }

\* the identity lists of the query-phase specification: repeated entries and
\* any order are possible (USERNAMES is extended, never deduplicated)
Identities == {"Alice", "Bob"}
QueryUserLists == UNION { [1..k -> Identities] : k \in 1..MaxUsers }

\* converted, verified records with ties and without in each sort key
Item(i, a, s, z) == [Rec(i, "Alice", a, s, z) EXCEPT !.code = 200]

SortCatalogue ==
    { Item(1, 1, 5, 3), Item(2, 2, 5, 1), Item(3, 3, 7, 2), Item(4, 2, 0, 3),
      Item(5, 1, 7, 1) }

\* the lists sorter() is called with in the sorter specification: distinct records
SortInputs ==
    UNION { { l \in [1..k -> SortCatalogue] : \A i, j \in 1..k : l[i] = l[j] => i = j } :
            k \in 0..MaxSort }

SeqsUpTo(S, n) == UNION { [1..k -> S] : k \in 0..n }

\* the JSON arrays a q.php query for a term can answer with
Responses(term) == SeqsUpTo(Catalogue(term), MaxResp)

\* a URL is the sequence of its parts: "www.tpb.org" is <<"www.", "tpb.org">>
\* what the user types at a URL prompt
UrlInputs ==
    { <<"tpb.org">>,
      <<"www.", "tpb.org">>,
      <<"https://", "www.", "proxy.net">>,
      <<"https://", "proxy.net", "/", "index.html">> }

\* the modes init() sets
Modes == {"f", "s", "a"}

\* how requests.get(url, timeout=REQUEST_TIMEOUT) ends: a response with
\* response.ok, a response without it (status 400 and above), RequestException
Outcomes == {"ok", "bad", "raised"}

\* --------------------------------------------------------- pure helpers
\* url.startswith(part)
StartsWith(url, part) == Len(url) > 0 /\ url[1] = part

\* url.endswith(part)
EndsWith(url, part) == Len(url) > 0 /\ url[Len(url)] = part

\* url.replace(part, ""): every occurrence is removed
Without(url, part) == SelectSeq(url, LAMBDA t : t # part)

\* if not url.startswith("https://"): url = "https://" + url
AddScheme(url) == IF ~StartsWith(url, "https://") THEN <<"https://">> \o url ELSE url

\* if url.endswith("index.html"): url = url.replace("index.html", "")
StripIndex(url) == IF EndsWith(url, "index.html") THEN Without(url, "index.html") ELSE url

\* the fresh-start prompt: a leading "www." is removed first
FreshUrl(input) ==
    StripIndex(AddScheme(IF StartsWith(input, "www.") THEN Without(input, "www.")
                         ELSE input))

\* the replacement prompts of the modes s and a
NewUrl(input) == StripIndex(AddScheme(input))

\* df.at[0, "URL"]: a URL some earlier run validated and saved
SavedUrls == { FreshUrl(u) : u \in UrlInputs } \cup { NewUrl(u) : u \in UrlInputs }

\* no request has been made yet
NoRequest == [url |-> <<>>, outcome |-> "none"]

RECURSIVE ToInt(_)
\* int(): decimal parse of a digit string
ToInt(s) == IF Len(s) = 0 THEN 0 ELSE 10 * ToInt(SubSeq(s, 1, Len(s) - 1)) + s[Len(s)]

\* mutant: the username test is missing
FilterByUser_All(data, user) == data

\* [item for item in data if item["username"] == user]
FilterByUser(data, user) == SelectSeq(data, LAMBDA item : item.username = user)

\* mutant: one pass over the response, keeping usernames found in the list
PerUser_SinglePass(data, users) ==
    <<SelectSeq(data, LAMBDA item : \E u \in 1..Len(users) : item.username = users[u])>>

RECURSIVE PerUser(_, _)
\* the inner loop over usernames: one filtered list appended per user
PerUser(data, users) ==
    IF Len(users) = 0 THEN <<>>
    ELSE <<FilterByUser(data, Head(users))>> \o PerUser(data, Tail(users))

RECURSIVE Chain(_)
\* list(chain(*lists))
Chain(lists) == IF Len(lists) = 0 THEN <<>> ELSE Head(lists) \o Chain(Tail(lists))

\* [x for x in combined_data_list if x]
NonEmpty(lists) == SelectSeq(lists, LAMBDA x : Len(x) > 0)

\* item["added"] = int(item["added"]) ... for the three numeric fields
Convert(item) ==
    [item EXCEPT !.added = ToInt(@), !.seeders = ToInt(@), !.size = ToInt(@)]

ConvertAll(list) == [i \in 1..Len(list) |-> Convert(list[i])]

\* mutant: an item is compared with the last kept item only
Contains_Last(list, item) == Len(list) > 0 /\ list[Len(list)] = item

\* item in list (dictionary equality)
Contains(list, item) == \E i \in 1..Len(list) : list[i] = item

RECURSIVE Unique_KeepLast(_, _)
\* mutant: the last occurrence of a record is kept, not the first
Unique_KeepLast(dict_list, acc) ==
    IF Len(dict_list) = 0 THEN acc
    ELSE Unique_KeepLast(Tail(dict_list),
                         IF \E i \in 2..Len(dict_list) : dict_list[i] = Head(dict_list)
                         THEN acc
                         ELSE Append(acc, Head(dict_list)))

RECURSIVE Unique_Prepend(_, _)
\* mutant: a new record is inserted at the front (insert(0, item))
Unique_Prepend(dict_list, acc) ==
    IF Len(dict_list) = 0 THEN acc
    ELSE Unique_Prepend(Tail(dict_list),
                        IF \E i \in 1..Len(acc) : acc[i] = Head(dict_list) THEN acc
                        ELSE <<Head(dict_list)>> \o acc)

RECURSIVE Unique(_, _)
\* [unique_list.append(item) for item in dict_list if item not in unique_list]
Unique(dict_list, acc) ==
    IF Len(dict_list) = 0 THEN acc
    ELSE Unique(Tail(dict_list),
                IF Contains(acc, Head(dict_list)) THEN acc
                ELSE Append(acc, Head(dict_list)))

\* lines 128-140 on the accumulated lists
DedupList(lists) == Unique(ConvertAll(Chain(NonEmpty(lists))), <<>>)

\* mutant: only records answered 200 are kept
WorkingList_OnlyOk(list) == SelectSeq(list, LAMBDA item : item.code = 200)

\* mutant: the comparison is inverted
WorkingList_Inverted(list) == SelectSeq(list, LAMBDA item : item.code = NotFound)

\* [item for item in unique_list if item["code"] != 404]
WorkingList(list) == SelectSeq(list, LAMBDA item : item.code # NotFound)

\* mutant: only the records that carry no code yet are probed again
BatchOf_Unverified(list) == { i \in 1..Len(list) : list[i].code = NoCode }

\* get_tasks(): one probe per item of the list, in list order
BatchOf(list) == 1..Len(list)

\* mutant: each status is written to its record as soon as it arrives
WhileGathering_Eager(list, i, c) == [list EXCEPT ![i].code = c]

\* while gather() is awaited check_urls() writes nothing to the records
WhileGathering(list, i, c) == list

\* mutant: the fallback keeps only records verified as not 404
FallbackList_Verified(list) ==
    SelectSeq(list, LAMBDA item : item.code \in Codes \ {NotFound})

\* the except branch calls sorter(unique_list)
FallbackList(list) == list

\* mutant: results are collected in completion order (as_completed)
Slot_Arrival(i, resp) == Cardinality(DOMAIN resp) + 1

\* asyncio.gather(): the result of the i-th awaitable is the i-th result,
\* whatever the completion order
Slot(i, resp) == i

\* for idx, item in enumerate(item_list): item["code"] = codes[idx]
AssignCodes(list, resp) == [i \in 1..Len(list) |-> [list[i] EXCEPT !.code = resp[i]]]

\* mutant: the failure is not counted
NextCounter_Stuck(c) == c

\* counter += 1
NextCounter(c) == c + 1

RECURSIVE InsertBy_TiesFlipped(_, _, _, _)
\* mutant: x is placed before the elements with an equal key
InsertBy_TiesFlipped(x, sorted, key, reverse) ==
    IF Len(sorted) = 0 THEN <<x>>
    ELSE LET y == Head(sorted)
             after == IF reverse THEN y[key] <= x[key] ELSE y[key] >= x[key]
         IN  IF after THEN <<x>> \o sorted
             ELSE <<y>> \o InsertBy_TiesFlipped(x, Tail(sorted), key, reverse)

RECURSIVE InsertBy(_, _, _, _)
\* place x behind every element that does not sort strictly after it
InsertBy(x, sorted, key, reverse) ==
    IF Len(sorted) = 0 THEN <<x>>
    ELSE LET y == Head(sorted)
             after == IF reverse THEN y[key] < x[key] ELSE y[key] > x[key]
         IN  IF after THEN <<x>> \o sorted
             ELSE <<y>> \o InsertBy(x, Tail(sorted), key, reverse)

RECURSIVE SortedBy(_, _, _)
\* sorted(item_list, key=lambda x: x[key], reverse=reverse): stable
SortedBy(list, key, reverse) ==
    IF Len(list) = 0 THEN <<>>
    ELSE InsertBy(list[Len(list)], SortedBy(SubSeq(list, 1, Len(list) - 1), key, reverse),
                  key, reverse)

\* mutant: the records are drawn with replacement (random.choices)
Shuffles_Sample(list) ==
    { [i \in 1..Len(list) |-> list[p[i]]] : p \in [1..Len(list) -> 1..Len(list)] }

\* the orders random.shuffle(item_list) can leave
Shuffles(list) ==
    { [i \in 1..Len(list) |-> list[p[i]]] :
        p \in { q \in [1..Len(list) -> 1..Len(list)] :
                  \A i, j \in 1..Len(list) : q[i] = q[j] => i = j } }

\* mutant: 'm' was copied from 'l' with reverse=True left in
SortChoice_SmallestDesc(list, ch) ==
    CASE ch = "n" -> {SortedBy(list, "added", TRUE)}
      [] ch = "o" -> {SortedBy(list, "added", FALSE)}
      [] ch = "s" -> {SortedBy(list, "seeders", TRUE)}
      [] ch = "l" -> {SortedBy(list, "size", TRUE)}
      [] ch = "m" -> {SortedBy(list, "size", TRUE)}
      [] ch = "r" -> Shuffles(list)

\* the list sorter() passes to printer() for a choice
SortChoice(list, ch) ==
    CASE ch = "n" -> {SortedBy(list, "added", TRUE)}
      [] ch = "o" -> {SortedBy(list, "added", FALSE)}
      [] ch = "s" -> {SortedBy(list, "seeders", TRUE)}
      [] ch = "l" -> {SortedBy(list, "size", TRUE)}
      [] ch = "m" -> {SortedBy(list, "size", FALSE)}
      [] ch = "r" -> Shuffles(list)

Choices == {"n", "o", "s", "l", "m", "r"}

\* mutant: the cap is compared with <=
WithLinks_Inclusive(idx) == idx <= MAX_RESULTS_WITH_LINKS

\* if idx < MAX_RESULTS_WITH_LINKS (idx counts from 0)
WithLinks(idx) == idx < MAX_RESULTS_WITH_LINKS

\* ----------------------------------------------------------------- state
VARIABLES
    pc,                  \* where the program is
    usernames,           \* search() argument
    search_terms,        \* search() argument
    term_idx,            \* position of the for-loop over search_terms
    combined_data_list,  \* search(): one filtered list per (term, user); dead, and
                         \* dropped here, once it has been flattened (line 130)
    fetched,             \* the q.php responses so far, one per term (history);
                         \* dropped when the retry loop issues its first batch
    dict_list,           \* search(): the flattened, converted records; dead after
                         \* line 140, dropped with the first batch
    unique_list,         \* search(): the deduplicated records
    deduplicated,        \* unique_list as line 140 left it (history)
    counter,             \* search(): failures caught by the bare except
    console,             \* last line search()'s retry loop printed
    batches,             \* probe batches dispatched by check_urls()
    pending,             \* check_urls(): probes in flight
    responses,           \* check_urls(): results gathered so far
    served,              \* status the site answered to the probe of record i
    succeeded,           \* some check_urls() call of this search returned
    handoff,             \* which branch of search() made the live sorter() call
    caller,              \* who called sorter(): search() or printer()
    item_list,           \* sorter() argument
    choice,              \* sorter(): the option read; dead once printer() displays
                         \* or prompts, and dropped there
    results,             \* printer() argument
    idx,                 \* printer(): records displayed in this pass
    enriched,            \* ids whose t.php fetch was issued and answered in this
                         \* display pass, in the order of the fetches (history)
    STATUS,              \* global: the mode init() chose
    PIRATE_URL,          \* global: the site base URL
    new_url,             \* proxy_checker(): the URL read in a replacement loop
    reach                \* the most recent reachability request of proxy_checker():
                         \* the URL it was made to and how it ended (history)

vars == <<pc, usernames, search_terms, term_idx, combined_data_list, fetched,
          dict_list, unique_list,
          deduplicated, counter, console, batches, pending, responses, served, succeeded,
          handoff, caller, item_list, choice, results, idx, enriched,
          STATUS, PIRATE_URL, new_url, reach>>

\* the globals and locals of proxy_checker()
proxy == <<STATUS, PIRATE_URL, new_url, reach>>

NoResponses == [i \in {} |-> NoCode]

\* search(usernames, search_terms) is entered, here from fresh() with a URL
\* that proxy_checker() found reachable
Start(userLists, termLists) ==
    /\ pc = "query"
    /\ usernames \in userLists
    /\ search_terms \in termLists
    /\ term_idx = 1
    /\ combined_data_list = <<>>
    /\ fetched = <<>>
    /\ dict_list = <<>>
    /\ unique_list = <<>>
    /\ deduplicated = <<>>
    /\ counter = 0
    /\ console = [msg |-> "searching", n |-> 0]
    /\ batches = 0
    /\ pending = {}
    /\ responses = NoResponses
    /\ served = NoResponses
    /\ succeeded = FALSE
    /\ handoff = "none"
    /\ caller = "none"
    /\ item_list = <<>>
    /\ choice = ""
    /\ results = <<>>
    /\ idx = 0
    /\ enriched = <<>>
    /\ STATUS = "f"
    /\ PIRATE_URL = FreshUrl(<<"tpb.org">>)
    /\ new_url = <<>>
    /\ reach = [url |-> PIRATE_URL, outcome |-> "ok"]

Init == Start(UserLists, TermLists)

\* --------------------------------------------------------------- search()
\* one iteration of "for term in search_terms" whose request and parse succeed
Query ==
    /\ pc = "query"
    /\ term_idx <= Len(search_terms)
    /\ \E data \in Responses(search_terms[term_idx]) :
         /\ combined_data_list' = combined_data_list \o PerUser(data, usernames)
         /\ fetched' = Append(fetched, data)
    /\ term_idx' = term_idx + 1
    /\ UNCHANGED <<pc, usernames, search_terms, dict_list, unique_list, deduplicated, counter, console, batches,
                   pending, responses, served, succeeded, handoff, caller, item_list,
                   choice, results, idx,
                   enriched, proxy>>

\* requests.get() or response.json() raises, or the payload is not a list of
\* listings: nothing in search() catches it
QueryFail ==
    /\ pc = "query"
    /\ term_idx <= Len(search_terms)
    /\ pc' = "crashed"
    /\ UNCHANGED <<usernames, search_terms, term_idx, combined_data_list, fetched, dict_list, deduplicated, unique_list,
                   counter, console, batches, pending, responses, served, succeeded,
                   handoff, caller, item_list, choice, results, idx,
                   enriched, proxy>>

\* mutant: the deduplicated list goes to sorter() without the retry loop
Process_Unprobed ==
    /\ pc = "query"
    /\ term_idx > Len(search_terms)
    /\ dict_list' = ConvertAll(Chain(NonEmpty(combined_data_list)))
    /\ unique_list' = Unique(dict_list', <<>>)
    /\ deduplicated' = unique_list'
    /\ combined_data_list' = <<>>
    /\ console' = [msg |-> "potential", n |-> Len(unique_list')]
    /\ counter' = 0
    /\ item_list' = unique_list'
    /\ handoff' = "unfiltered"
    /\ caller' = "search"
    /\ pc' = "sorter"
    /\ UNCHANGED <<usernames, search_terms, term_idx, fetched, batches,
                   pending, responses, served, succeeded, choice, results, idx,
                   enriched, proxy>>

\* the loop is over: flatten, convert, deduplicate, enter the retry loop
Process ==
    /\ pc = "query"
    /\ term_idx > Len(search_terms)
    /\ dict_list' = ConvertAll(Chain(NonEmpty(combined_data_list)))
    /\ unique_list' = Unique(dict_list', <<>>)
    /\ deduplicated' = unique_list'
    /\ combined_data_list' = <<>>
    /\ console' = [msg |-> "potential", n |-> Len(unique_list')]
    /\ counter' = 0
    /\ pc' = "attempt"
    /\ UNCHANGED <<usernames, search_terms, term_idx, fetched, batches,
                   pending, responses, served, succeeded, handoff, caller, item_list,
                   choice, results, idx,
                   enriched, proxy>>

\* asyncio.run(check_urls(unique_list)): get_tasks() issues one probe per record
IssueBatch ==
    /\ pc = "attempt"
    /\ batches < MaxBatches
    /\ pc' = "gather"
    /\ batches' = batches + 1
    /\ pending' = BatchOf(unique_list)
    /\ responses' = NoResponses
    /\ served' = NoResponses
    /\ fetched' = <<>>
    /\ dict_list' = <<>>
    /\ UNCHANGED <<usernames, search_terms, term_idx, combined_data_list, deduplicated,
                   unique_list, counter, console, succeeded, handoff, caller, item_list,
                   choice, results, idx,
                   enriched, proxy>>

\* the except branch of the retry loop
HandleFailure ==
    /\ counter' = NextCounter(counter)
    /\ IF counter' > MaxRetries
       THEN /\ console' = [msg |-> "could not filter", n |-> 0]
            /\ item_list' = FallbackList(unique_list)
            /\ handoff' = "unfiltered"
            /\ caller' = "search"
            /\ pc' = "sorter"
       ELSE /\ console' = [msg |-> "attempt", n |-> counter']
            /\ item_list' = <<>>
            /\ handoff' = "none"
            /\ caller' = "none"
            /\ pc' = "attempt"
    /\ choice' = ""
    /\ results' = <<>>
    /\ idx' = 0
    /\ enriched' = <<>>
    /\ pending' = {}
    /\ responses' = NoResponses
    /\ served' = NoResponses
    /\ UNCHANGED <<usernames, search_terms, term_idx, combined_data_list, fetched, dict_list, deduplicated, unique_list,
                   batches, succeeded, proxy>>

\* an exception leaves sorter()/printer()/save(): caught by the bare except when
\* sorter() was called inside the try, unhandled when called from the except branch
Raise ==
    IF handoff = "filtered"
    THEN HandleFailure
    ELSE /\ pc' = "crashed"
         /\ UNCHANGED <<usernames, search_terms, term_idx, combined_data_list, fetched, dict_list, deduplicated,
                        unique_list, counter, console, batches, pending, responses,
                        served, succeeded, handoff, caller, item_list, choice, results, idx,
                   enriched, proxy>>

\* ------------------------------------------------------------ check_urls()
\* the probe of record i completes with an HTTP status
ProbeRespond ==
    /\ pc = "gather"
    /\ \E i \in pending, c \in Codes :
         /\ pending' = pending \ {i}
         /\ served' = (i :> c) @@ served
         /\ responses' = (Slot(i, responses) :> c) @@ responses
         /\ unique_list' = WhileGathering(unique_list, i, c)
    /\ UNCHANGED <<pc, usernames, search_terms, term_idx, combined_data_list, fetched, dict_list, deduplicated,
                   counter, console, batches, succeeded, handoff, caller,
                   item_list, choice, results, idx,
                   enriched, proxy>>

\* the probe of record i raises: gather() raises, check_urls() is left
ProbeFail ==
    /\ pc = "gather"
    /\ pending # {}
    /\ HandleFailure

\* every probe completed: codes are written, 404s dropped, sorter() is called
CheckUrlsDone ==
    /\ pc = "gather"
    /\ pending = {}
    /\ unique_list' = AssignCodes(unique_list, responses)
    /\ succeeded' = TRUE
    /\ item_list' = WorkingList(unique_list')
    /\ console' = [msg |-> "working", n |-> Len(item_list')]
    /\ handoff' = "filtered"
    /\ caller' = "search"
    /\ pc' = "sorter"
    /\ UNCHANGED <<usernames, search_terms, term_idx, combined_data_list, fetched, dict_list, deduplicated, counter,
                   batches, pending, responses, served, choice, results, idx,
                   enriched, proxy>>

\* ---------------------------------------------------------------- sorter()
\* a valid option is read: the list is ordered and printer() is called with it.
\* sorted() builds a new list; random.shuffle() reorders item_list itself.  (In
\* the fallback item_list is unique_list itself, which nothing reads again.)
Sort ==
    /\ pc = "sorter"
    /\ \E ch \in Choices :
         /\ choice' = ch
         /\ results' \in SortChoice(item_list, ch)
         /\ item_list' = IF ch = "r" THEN results' ELSE item_list
    /\ idx' = 0
    /\ enriched' = <<>>
    /\ pc' = "printer"
    /\ UNCHANGED <<usernames, search_terms, term_idx, combined_data_list, fetched, dict_list, deduplicated, unique_list,
                   counter, console, batches, pending, responses, served, succeeded,
                   handoff, caller, proxy>>

\* any other input: "Please input a valid option." and the prompt again
SortInvalid ==
    /\ pc = "sorter"
    /\ UNCHANGED vars

\* --------------------------------------------------------------- printer()
\* one record is displayed; its t.php fetch, if made, succeeds
Display ==
    /\ pc = "printer"
    /\ idx < Len(results)
    /\ enriched' = IF WithLinks(idx) THEN Append(enriched, results[idx + 1].id)
                   ELSE enriched
    /\ idx' = idx + 1
    /\ choice' = ""
    /\ UNCHANGED <<pc, usernames, search_terms, term_idx, combined_data_list, fetched, dict_list, deduplicated,
                   unique_list, counter, console, batches, pending, responses, served,
                   succeeded, handoff, caller, item_list, results, proxy>>

\* the record's fields are printed, then requests.get()/json()/["descr"] raises
EnrichFail ==
    /\ pc = "printer"
    /\ idx < Len(results)
    /\ WithLinks(idx)
    /\ Raise

\* mutant: the re-sort starts over from the list of the liveness check
ReSort_FromUniqueList ==
    /\ pc = "printer"
    /\ idx = Len(results)
    /\ item_list' = unique_list
    /\ choice' = ""
    /\ caller' = "printer"
    /\ pc' = "sorter"
    /\ UNCHANGED <<usernames, search_terms, term_idx, combined_data_list, fetched, dict_list, deduplicated, unique_list,
                   counter, console, batches, pending, responses, served, succeeded,
                   handoff, results, idx,
                   enriched, proxy>>

\* "Would you like to sort the results differently?" answered y
ReSort ==
    /\ pc = "printer"
    /\ idx = Len(results)
    /\ item_list' = results
    /\ choice' = ""
    /\ caller' = "printer"
    /\ pc' = "sorter"
    /\ UNCHANGED <<usernames, search_terms, term_idx, combined_data_list, fetched, dict_list, deduplicated, unique_list,
                   counter, console, batches, pending, responses, served, succeeded,
                   handoff, results, idx,
                   enriched, proxy>>

\* answered n: save() is entered
NoReSort ==
    /\ pc = "printer"
    /\ idx = Len(results)
    /\ pc' = "save"
    /\ choice' = ""
    /\ UNCHANGED <<usernames, search_terms, term_idx, combined_data_list, fetched, dict_list, deduplicated, unique_list,
                   counter, console, batches, pending, responses, served, succeeded,
                   handoff, caller, item_list, results, idx,
                   enriched, proxy>>

\* ------------------------------------------------------------------ save()
\* the dialogue ends; everything returns and search() breaks out of its loop
SaveDone ==
    /\ pc = "save"
    /\ pc' = "done"
    /\ UNCHANGED <<usernames, search_terms, term_idx, combined_data_list, fetched, dict_list, deduplicated, unique_list,
                   counter, console, batches, pending, responses, served, succeeded,
                   handoff, caller, item_list, choice, results, idx,
                   enriched, proxy>>

\* read_csv()/to_csv() raises (e.g. a collection name naming a missing directory)
SaveFail ==
    /\ pc = "save"
    /\ Raise

\* ---------------------------------------------------------- proxy_checker()
\* the arguments and the locals of search() and of the functions it drives
args == <<usernames, search_terms>>

locals == <<term_idx, combined_data_list, fetched, dict_list, unique_list, deduplicated,
            counter, batches, pending, responses, served, succeeded, handoff,
            caller, item_list, choice, results, idx, enriched>>

\* STATUS "f": one round of the loop: the URL is read, normalised and requested
FreshTry ==
    /\ pc = "proxy_checker"
    /\ STATUS = "f"
    /\ \E input \in UrlInputs, o \in Outcomes :
         /\ PIRATE_URL' = FreshUrl(input)
         /\ reach' = [url |-> PIRATE_URL', outcome |-> o]
         /\ pc' = IF o = "ok" THEN "returned" ELSE "proxy_checker"
    /\ UNCHANGED <<STATUS, new_url, console, args, locals>>

\* STATUS "s": the saved URL is requested.  A response that is not ok raises
\* nothing, so the except branch with the replacement loop is skipped and
\* control reaches the end of the function
SavedTry ==
    /\ pc = "proxy_checker"
    /\ STATUS = "s"
    /\ \E o \in Outcomes :
         /\ reach' = [url |-> PIRATE_URL, outcome |-> o]
         /\ pc' = IF o = "raised" THEN "replace" ELSE "returned"
    /\ UNCHANGED <<STATUS, PIRATE_URL, new_url, console, args, locals>>

\* STATUS "s": one round of the replacement loop; the CSV update succeeds
SavedReplace ==
    /\ pc = "replace"
    /\ STATUS = "s"
    /\ \E input \in UrlInputs, o \in Outcomes :
         /\ new_url' = NewUrl(input)
         /\ reach' = [url |-> new_url', outcome |-> o]
         /\ PIRATE_URL' = IF o = "ok" THEN new_url' ELSE PIRATE_URL
         /\ pc' = IF o = "ok" THEN "returned" ELSE "replace"
    /\ UNCHANGED <<STATUS, console, args, locals>>

\* STATUS "s": the new URL answers ok, then read_csv()/to_csv() raises
SavedStoreFail ==
    /\ pc = "replace"
    /\ STATUS = "s"
    /\ \E input \in UrlInputs :
         /\ new_url' = NewUrl(input)
         /\ reach' = [url |-> new_url', outcome |-> "ok"]
    /\ pc' = "crashed"
    /\ UNCHANGED <<STATUS, PIRATE_URL, console, args, locals>>

\* STATUS "a": the saved URL is requested; when it answers ok the user may keep
\* it (n) or change it anyway (y); otherwise the replacement loop follows
AmendTry ==
    /\ pc = "proxy_checker"
    /\ STATUS = "a"
    /\ \E o \in Outcomes, change \in {"y", "n"} :
         /\ reach' = [url |-> PIRATE_URL, outcome |-> o]
         /\ pc' = IF o = "ok" /\ change = "n" THEN "returned" ELSE "replace"
    /\ UNCHANGED <<STATUS, PIRATE_URL, new_url, console, args, locals>>

\* STATUS "a": one round of the replacement loop
AmendReplace ==
    /\ pc = "replace"
    /\ STATUS = "a"
    /\ \E input \in UrlInputs, o \in Outcomes :
         /\ new_url' = NewUrl(input)
         /\ reach' = [url |-> new_url', outcome |-> o]
         /\ PIRATE_URL' = IF o = "ok" THEN new_url' ELSE PIRATE_URL
         /\ pc' = IF o = "ok" THEN "returned" ELSE "replace"
    /\ UNCHANGED <<STATUS, console, args, locals>>

\* proxy_checker() has returned: fresh(), sai() or amend() calls search()
StartSearch ==
    /\ pc = "returned"
    /\ usernames' \in UserLists
    /\ search_terms' \in TermLists
    /\ console' = [msg |-> "searching", n |-> 0]
    /\ pc' = "query"
    /\ UNCHANGED <<proxy, locals>>

Next ==
    \/ Query
    \/ QueryFail
    \/ Process
    \/ IssueBatch
    \/ ProbeRespond
    \/ ProbeFail
    \/ CheckUrlsDone
    \/ Sort
    \/ SortInvalid
    \/ Display
    \/ EnrichFail
    \/ ReSort
    \/ NoReSort
    \/ SaveDone
    \/ SaveFail

Spec == Init /\ [][Next]_vars

\* a probe in flight ends (aiohttp's total timeout bounds it), and the pure
\* steps of the retry loop run; user input and the other requests are not forced
ProbeStep == ProbeRespond \/ ProbeFail

LiveInit == Init /\ Len(search_terms) = 1

\* the query phase alone, for every identity list up to MaxUsers entries
QueryInit == Start(QueryUserLists, TermLists)

QueryNext == Query \/ QueryFail \/ Process

QuerySpec == QueryInit /\ [][QueryNext]_vars

\* sorter() as search() calls it after a batch that answered 200 throughout,
\* for every list of distinct records of up to MaxSort entries
SortInit ==
    /\ pc = "sorter"
    /\ item_list \in SortInputs
    /\ usernames = <<"Alice">>
    /\ search_terms = <<"linux">>
    /\ term_idx = 2
    /\ combined_data_list = <<>>
    /\ fetched = <<>>
    /\ dict_list = <<>>
    /\ unique_list = item_list
    /\ deduplicated = [i \in 1..Len(item_list) |-> [item_list[i] EXCEPT !.code = NoCode]]
    /\ counter = 0
    /\ console = [msg |-> "working", n |-> Len(item_list)]
    /\ batches = 1
    /\ pending = {}
    /\ responses = [i \in 1..Len(item_list) |-> 200]
    /\ served = responses
    /\ succeeded = TRUE
    /\ handoff = "filtered"
    /\ caller = "search"
    /\ choice = ""
    /\ results = <<>>
    /\ idx = 0
    /\ enriched = <<>>
    /\ STATUS = "f"
    /\ PIRATE_URL = FreshUrl(<<"tpb.org">>)
    /\ new_url = <<>>
    /\ reach = [url |-> PIRATE_URL, outcome |-> "ok"]

SortNext == Sort \/ SortInvalid

SortSpec == SortInit /\ [][SortNext]_vars

\* the records of a long result list, oldest first
LongList(n) == [i \in 1..n |-> Item(i, i, 1, 1)]

\* printer() as sorter() calls it with the option "o", after a batch that
\* answered 200 throughout, for lists around the cap of the enrichment
PrintInit ==
    /\ pc = "printer"
    /\ results \in { LongList(n) : n \in (MAX_RESULTS_WITH_LINKS - 1)..MaxDisplay }
    /\ item_list = results
    /\ choice = "o"
    /\ idx = 0
    /\ enriched = <<>>
    /\ usernames = <<"Alice">>
    /\ search_terms = <<"linux">>
    /\ term_idx = 2
    /\ combined_data_list = <<>>
    /\ fetched = <<>>
    /\ dict_list = <<>>
    /\ unique_list = item_list
    /\ deduplicated = [i \in 1..Len(item_list) |-> [item_list[i] EXCEPT !.code = NoCode]]
    /\ counter = 0
    /\ console = [msg |-> "working", n |-> Len(item_list)]
    /\ batches = 1
    /\ pending = {}
    /\ responses = [i \in 1..Len(item_list) |-> 200]
    /\ served = responses
    /\ succeeded = TRUE
    /\ handoff = "filtered"
    /\ caller = "search"
    /\ STATUS = "f"
    /\ PIRATE_URL = FreshUrl(<<"tpb.org">>)
    /\ new_url = <<>>
    /\ reach = [url |-> PIRATE_URL, outcome |-> "ok"]

PrintNext == Display \/ EnrichFail

PrintSpec == PrintInit /\ [][PrintNext]_vars

\* init() has set STATUS and fresh(), sai() or amend() calls proxy_checker():
\* PIRATE_URL is still empty in a fresh start and read from the CSV otherwise
ProxyInit ==
    /\ pc = "proxy_checker"
    /\ STATUS \in Modes
    /\ PIRATE_URL \in (IF STATUS = "f" THEN {<<>>} ELSE SavedUrls)
    /\ new_url = <<>>
    /\ reach = NoRequest
    /\ usernames = <<>>
    /\ search_terms = <<>>
    /\ term_idx = 1
    /\ combined_data_list = <<>>
    /\ fetched = <<>>
    /\ dict_list = <<>>
    /\ unique_list = <<>>
    /\ deduplicated = <<>>
    /\ counter = 0
    /\ console = [msg |-> "welcome", n |-> 0]
    /\ batches = 0
    /\ pending = {}
    /\ responses = NoResponses
    /\ served = NoResponses
    /\ succeeded = FALSE
    /\ handoff = "none"
    /\ caller = "none"
    /\ item_list = <<>>
    /\ choice = ""
    /\ results = <<>>
    /\ idx = 0
    /\ enriched = <<>>

ProxyNext ==
    \/ FreshTry
    \/ SavedTry
    \/ SavedReplace
    \/ SavedStoreFail
    \/ AmendTry
    \/ AmendReplace
    \/ StartSearch

ProxySpec == ProxyInit /\ [][ProxyNext]_vars

LiveSpec ==
    /\ LiveInit
    /\ [][Next]_vars
    /\ WF_vars(IssueBatch)
    /\ WF_vars(ProbeStep)
    /\ WF_vars(CheckUrlsDone)

\* ------------------------------------------------------------- properties
\* the deduplicated list of this search, before any probe
Dedup == deduplicated

\* search() has just called sorter()
SearchCallsSorter == pc = "sorter" /\ caller = "search"

\* the deduplicated list with the statuses of the last batch attached
Probed == [i \in 1..Len(Dedup) |-> [Dedup[i] EXCEPT !.code = served[i]]]

\* C1: when check_urls() raised on all 4 attempts (no batch ever succeeded and
\* search() falls back), sorter() receives the deduplicated list, in the same
\* order, and no record carries a code.
C1_FallbackAfterFourFailures ==
    (SearchCallsSorter /\ handoff = "unfiltered" /\ ~succeeded) =>
        /\ batches = 4
        /\ item_list = Dedup
        /\ \A i \in 1..Len(item_list) : item_list[i].code = NoCode

C1_Witness ==
    /\ SearchCallsSorter /\ handoff = "unfiltered" /\ ~succeeded
    /\ Len(item_list) >= 2

\* C2: after the 1st, 2nd or 3rd failure the attempt number is reported and a
\* new batch probes every record of the deduplicated list; after the 4th
\* failure no batch is issued; at most 4 batches are issued per search.
C2_RetryWholeBatch ==
    /\ batches <= 4
    /\ (pc \in {"attempt", "gather"} /\ counter > 0) =>
          /\ counter \in 1..3
          /\ console = [msg |-> "attempt", n |-> counter]
    /\ pc = "gather" =>
          /\ batches = counter + 1
          /\ pending \cup DOMAIN served = 1..Len(Dedup)
          /\ Len(unique_list) = Len(Dedup)
    /\ counter > 3 => pc \notin {"attempt", "gather"}

C2_Witness ==
    /\ pc = "gather" /\ counter = 3 /\ batches = 4
    /\ pending = 1..Len(unique_list) /\ Len(unique_list) >= 2
    /\ succeeded

\* C3: after a successful batch sorter() receives exactly the records of the
\* deduplicated list whose code is not 404, in their original relative order;
\* records answered 200 or 500 are kept.
C3_DropOnly404 ==
    (SearchCallsSorter /\ handoff = "filtered") =>
        item_list = SelectSeq(Probed, LAMBDA r : r.code # 404)

C3_Witness ==
    /\ SearchCallsSorter /\ handoff = "filtered"
    /\ Len(unique_list) = 3
    /\ {unique_list[i].code : i \in 1..3} = {200, 404, 500}
    /\ Len(item_list) = 2

\* C4: when every probe of the batch answers 200, sorter() receives every
\* record of the deduplicated list and every record has code 200.
C4_AllOk ==
    (SearchCallsSorter /\ handoff = "filtered"
       /\ \A i \in DOMAIN served : served[i] = 200) =>
        /\ Len(item_list) = Len(Dedup)
        /\ \A i \in 1..Len(Dedup) : item_list[i] = [Dedup[i] EXCEPT !.code = 200]

C4_Witness ==
    /\ SearchCallsSorter /\ handoff = "filtered"
    /\ DOMAIN served = 1..3
    /\ \A i \in DOMAIN served : served[i] = 200
    /\ Len(item_list) = 3

\* C5: whatever the order in which the probes of a batch complete, the record
\* at position i gets the status answered to the probe of record i, and the
\* record list keeps its first-seen order.
C5_CodesByPosition ==
    handoff = "filtered" =>
        /\ DOMAIN served = 1..Len(unique_list)
        /\ \A i \in 1..Len(unique_list) : unique_list[i].code = served[i]
        /\ [i \in 1..Len(unique_list) |-> [unique_list[i] EXCEPT !.code = NoCode]] = Dedup

C5_Witness ==
    /\ SearchCallsSorter /\ handoff = "filtered"
    /\ Len(unique_list) = 3
    /\ unique_list[1].code = 500 /\ unique_list[2].code = 200
    /\ unique_list[3].code = 404

\* C6: an attempt is all-or-nothing: while a batch is in flight no record
\* changes until the step in which every probe has completed, so an attempt
\* in which a probe fails leaves every code as it was.
C6_AllOrNothing ==
    [][pc = "gather" /\ ~(pending = {} /\ handoff' = "filtered")
         => unique_list' = unique_list]_vars

C6_Witness ==
    /\ pc = "gather" /\ succeeded
    /\ pending # {}
    /\ \E i \in DOMAIN served : served[i] # unique_list[i].code

\* C7: once the retry loop is entered, whatever the outcomes of the batches,
\* sorter() is eventually called by search().
C7_SorterEventuallyCalled == (pc = "attempt") ~> SearchCallsSorter

C7_Witness ==
    /\ SearchCallsSorter /\ handoff = "filtered"
    /\ counter = 2 /\ batches = 3
    /\ Len(item_list) >= 1

\* C8: a failure of the query of one term does not abort the queries of the
\* remaining terms: the query loop is left only after every term was queried.
C8_QueryFailureIsolated == pc # "query" => term_idx > Len(search_terms)

\* C9: a failed enrichment fetch does not abort the display: a display pass is
\* left only after every record of the result list was displayed.
C9_DisplayNotAborted ==
    [][pc = "printer" /\ pc' # "printer" => idx = Len(results)]_vars

\* C10: once a batch succeeded and its list was handed to sorter(), no further
\* batch is issued and the retry counter is not incremented, whatever fails
\* inside sorter(), printer() or save().
C10_DoneFilteredTerminal ==
    [][handoff = "filtered" => counter' = counter /\ batches' = batches
                               /\ pc' # "attempt"]_vars

\* C11: whenever search() takes the fallback branch, the list it passes to
\* sorter() is the deduplicated list as it was before verification and no
\* record in it carries a code.
C11_FallbackListUnverified ==
    (SearchCallsSorter /\ handoff = "unfiltered") =>
        /\ item_list = Dedup
        /\ \A i \in 1..Len(item_list) : item_list[i].code = NoCode

\* C12: the 'Could not filter dead URLs' notice is the last line printed when
\* sorter() receives the fallback list, and it is never printed in a search in
\* which some probe batch succeeded.
C12_NoticeOnlyWhenNeverVerified ==
    /\ (SearchCallsSorter /\ handoff = "unfiltered") => console.msg = "could not filter"
    /\ console.msg = "could not filter" => ~succeeded

\* C13: no failure of a search query, a probe or an enrichment fetch ends the
\* process: the only unhandled error is one raised by save(), after every
\* record was displayed.
C13_NoFatalError ==
    pc = "crashed" => (handoff = "unfiltered" /\ idx = Len(results))

\* ---------------------------------------------- query phase, deduplication
Range(seq) == { seq[i] : i \in 1..Len(seq) }

\* the records accumulated so far, flattened
Accumulated == Chain(NonEmpty(combined_data_list))

\* lines 128-142 have run and no batch has been issued yet
AfterDedup == pc = "attempt" /\ batches = 0

\* the listings the queries returned, in term order then response order
Fetched == Chain(fetched)

\* C14: every record accumulated by the query phase, and every record of the
\* flattened and of the deduplicated list, has a username equal to one of the
\* supplied identities.
C14_OnlySuppliedIdentities ==
    /\ \A r \in Range(Accumulated) : r.username \in Range(usernames)
    /\ \A r \in Range(dict_list) : r.username \in Range(usernames)
    /\ \A r \in Range(unique_list) : r.username \in Range(usernames)

C14_Witness ==
    /\ pc = "query" /\ term_idx > Len(search_terms)
    /\ Len(usernames) = 2
    /\ \E r \in Range(Fetched) : r.username \notin Range(usernames)
    /\ Len(Accumulated) >= 2

\* C15: deduplication keeps exactly the first occurrence of each distinct
\* record, in first-seen order; an input without duplicates is returned as is.
C15_FirstOccurrencesInOrder ==
    AfterDedup =>
        LET D == dict_list
            U == unique_list
            First(r) == CHOOSE i \in 1..Len(D) : D[i] = r /\ \A j \in 1..(i - 1) : D[j] # r
        IN  /\ Range(U) = Range(D)
            /\ \A i, j \in 1..Len(U) : i < j => (U[i] # U[j] /\ First(U[i]) < First(U[j]))
            /\ (\A i, j \in 1..Len(D) : i < j => D[i] # D[j]) => U = D

C15_Witness ==
    /\ AfterDedup
    /\ \E i, j, k \in 1..Len(dict_list) :
          i < j /\ j < k /\ dict_list[i] = dict_list[k] /\ dict_list[i] # dict_list[j]
    /\ Len(unique_list) >= 2

\* C16: deduplication is idempotent: applied to its own output it returns the
\* same list.
C16_DedupIdempotent == AfterDedup => Unique(unique_list, <<>>) = unique_list

C16_Witness ==
    /\ AfterDedup
    /\ Len(unique_list) >= 3
    /\ Len(dict_list) > Len(unique_list)

\* C17: the list that reaches the liveness check holds each distinct record
\* whose username is in the identity list exactly once and no other record,
\* however often the queries returned it.
C17_EachWantedRecordOnce ==
    AfterDedup =>
        LET wanted == { Convert(r) : r \in { x \in Range(Fetched) :
                                                x.username \in Range(usernames) } }
        IN  /\ Range(unique_list) = wanted
            /\ Len(unique_list) = Cardinality(wanted)

C17_Witness ==
    /\ AfterDedup
    /\ search_terms = <<"linux">> /\ usernames = <<"Alice">>
    /\ Len(fetched[1]) = 3
    /\ \E i, j, k \in 1..3 :
          /\ i # j /\ fetched[1][i] = fetched[1][j]
          /\ fetched[1][i].username = "Alice" /\ fetched[1][k].username = "Bob"
    /\ Len(unique_list) = 1

\* C18 as stated: the accumulated list is in term order and, within a term, in
\* response order, for any number of identities.
C18_TermThenResponseOrder ==
    pc = "query" =>
        Accumulated = SelectSeq(Fetched, LAMBDA r : r.username \in Range(usernames))

\* C18 amended: the accumulated list is in term order, within a term in the
\* order of the identity list (one group per entry, a repeated entry repeating
\* its records), and within one entry in response order.
C18_TermThenIdentityThenResponseOrder ==
    pc = "query" =>
        LET U == Len(usernames)
            groups == [k \in 1..(Len(fetched) * U) |->
                         SelectSeq(fetched[((k - 1) \div U) + 1],
                                   LAMBDA r : r.username = usernames[((k - 1) % U) + 1])]
        IN  Accumulated = Chain(groups)

C18_Witness ==
    /\ pc = "query" /\ term_idx > Len(search_terms)
    /\ usernames = <<"Bob", "Alice">>
    /\ Len(fetched) = 2 /\ Len(fetched[1]) >= 2 /\ Len(fetched[2]) >= 1
    /\ fetched[1][1].username = "Alice" /\ fetched[1][2].username = "Bob"

\* ----------------------------------------------------------------- sorter
\* sorter() has just passed its list to printer()
Sorted == pc = "printer" /\ choice # ""

KeyOf(ch) == CASE ch \in {"n", "o"} -> "added"
               [] ch = "s" -> "seeders"
               [] ch \in {"l", "m"} -> "size"

Reverse(seq) == [i \in 1..Len(seq) |-> seq[Len(seq) + 1 - i]]

NoTies(list, key) == \A i, j \in 1..Len(list) : list[i][key] = list[j][key] => i = j

\* C19: for the keys n, o, s, l, m the list passed to printer() holds the
\* records of sorter()'s list, ordered by the key in the key's direction, and
\* records with equal key values keep their relative order.
C19_OrderedAndStable ==
    (Sorted /\ choice \in {"n", "o", "s", "l", "m"}) =>
        LET key == KeyOf(choice)
            desc == choice \in {"n", "s", "l"}
            Pos(r) == CHOOSE i \in 1..Len(item_list) : item_list[i] = r
        IN  /\ Len(results) = Len(item_list)
            /\ Range(results) = Range(item_list)
            /\ \A i, j \in 1..Len(results) : i < j =>
                  /\ desc => results[i][key] >= results[j][key]
                  /\ ~desc => results[i][key] <= results[j][key]
                  /\ results[i][key] = results[j][key] => Pos(results[i]) < Pos(results[j])

C19_Witness ==
    /\ Sorted /\ choice = "n"
    /\ Len(results) = 3
    /\ results[1].added = results[2].added
    /\ results # item_list

\* C20: without ties on the key, the newest order reversed is the oldest order
\* and the largest order reversed is the smallest order, and conversely.
C20_AscendingReversesDescending ==
    (Sorted /\ choice \in {"n", "o", "l", "m"} /\ NoTies(item_list, KeyOf(choice))) =>
        LET other == CASE choice = "n" -> "o" [] choice = "o" -> "n"
                       [] choice = "l" -> "m" [] choice = "m" -> "l"
        IN  SortChoice(item_list, other) = {Reverse(results)}

C20_Witness ==
    /\ Sorted /\ choice = "l"
    /\ Len(results) = 3
    /\ NoTies(item_list, "size")
    /\ results # item_list /\ Reverse(results) # item_list

\* ------------------------------------------------------ re-sort and display
\* a display pass is over and printer() asks whether to sort differently
PassOver == pc = "printer" /\ idx = Len(results)

\* sorter() runs, or printer() runs under it, on a re-sort request
ReSorting == caller = "printer" /\ pc \in {"sorter", "printer"}

\* C21: a re-sort request at the end of a display pass re-runs sorter() on the
\* list just displayed, also when that pass itself followed a re-sort, and no
\* step of the request or of the sorter()/printer() run it starts issues a
\* search query or a probe batch.
C21_ReSortReusesRecords ==
    [][/\ (PassOver /\ pc' # "save") =>
            /\ pc' = "sorter" /\ caller' = "printer"
            /\ item_list' = results
            /\ batches' = batches /\ term_idx' = term_idx
       /\ ReSorting =>
            /\ batches' = batches /\ term_idx' = term_idx
            /\ pending' = pending /\ unique_list' = unique_list
            /\ pc' \notin {"query", "gather"}]_vars

C21_Witness ==
    /\ ReSorting /\ PassOver
    /\ Len(results) = 3 /\ results # item_list
    /\ batches = 1

\* C22: at every point of a display pass the enrichment fetches issued so far
\* are those of the records displayed so far at the positions 0 to 99, one per
\* record, in display order; the records from position 100 on get none.
C22_EnrichmentUpToCap ==
    pc = "printer" =>
        LET n == IF idx < MAX_RESULTS_WITH_LINKS THEN idx ELSE MAX_RESULTS_WITH_LINKS
        IN  enriched = [k \in 1..n |-> results[k].id]

C22_Witness ==
    /\ PassOver
    /\ Len(results) > MAX_RESULTS_WITH_LINKS + 1
    /\ Len(enriched) = MAX_RESULTS_WITH_LINKS

\* C23: sorter() and printer() are entered only after a probe batch was issued,
\* and the first batch of a search probes every record of the deduplicated list.
C23_ProbedBeforeSorted ==
    [][/\ pc' \in {"sorter", "printer"} => batches >= 1
       /\ (batches = 0 /\ batches' # 0) =>
             /\ pc = "attempt" /\ pc' = "gather"
             /\ pending' = 1..Len(Dedup)
             /\ unique_list' = Dedup]_vars

C23_Witness ==
    /\ pc = "printer" /\ caller = "search"
    /\ batches = 1 /\ idx >= 1
    /\ Len(Dedup) >= 2

\* C24: no record whose code is 404 is in the list sorter() holds or in the
\* list printer() displays.
C24_NoDeadRecordShown ==
    /\ pc = "sorter" => \A r \in Range(item_list) : r.code # NotFound
    /\ pc = "printer" => \A r \in Range(results) : r.code # NotFound

\* the list search() handed to sorter(): working_list after a batch that
\* succeeded, unique_list in the fallback
Handed ==
    IF handoff = "filtered" THEN WorkingList(unique_list) ELSE FallbackList(unique_list)

\* a and b hold the same records, each as often in a as in b
IsPermutation(a, b) ==
    /\ Len(a) = Len(b)
    /\ \A r \in Range(a) \cup Range(b) :
          Cardinality({ i \in 1..Len(a) : a[i] = r }) =
          Cardinality({ i \in 1..Len(b) : b[i] = r })

\* C25: the list sorter() holds and the list it passes to printer() are, after
\* any sequence of sorts, invalid options and re-sorts, permutations of the
\* list search() handed to sorter().
C25_PermutationOfHanded ==
    /\ pc = "sorter" => IsPermutation(item_list, Handed)
    /\ pc = "printer" => IsPermutation(results, Handed)

C25_Witness ==
    /\ Sorted /\ caller = "printer" /\ choice = "r"
    /\ Len(results) = 3
    /\ results # Handed /\ Reverse(results) # Handed

\* ------------------------------------------------------------ proxy_checker
\* C26: in every mode, when proxy_checker() has returned and when search() is
\* started, the most recent reachability request was made to the current
\* PIRATE_URL and answered ok.
C26_UrlValidated ==
    pc \in {"returned", "query"} => (reach.url = PIRATE_URL /\ reach.outcome = "ok")

====
